---------------------------- MODULE Spec2Model ----------------------------
(***************************************************************************)
(* A model of nannou's geom::Rect (src/src/geom/rect.rs): the rectangle    *)
(* as a pair of one-dimensional ranges, its constructors, derived queries, *)
(* alignment, padding, overlap and subdivision, and the two double-ended   *)
(* producers Corners and Subdivisions.                                     *)
(*                                                                         *)
(* geom::Range is not part of the sources at hand; its operations (the     *)
(* Range_ definitions below) follow the contract the specification states  *)
(* for it.                                                                 *)
(*                                                                         *)
(* Scalars are integers.  Halving truncates toward zero, as the division   *)
(* of an integer scalar does; on even values it is exact, as it is for a   *)
(* floating point scalar.                                                  *)
(***************************************************************************)
EXTENDS Integers, Sequences, FiniteSets

VARIABLES
    rect,       \* the Rect an operation is called on (the receiver)
    other,      \* the Rect passed as `other` to a two-rect operation
    op,         \* the operation that produced the current state
    arg,        \* the scalar argument of that operation (0 when it has none)
    out,        \* the value that operation returned
    iter,       \* the producer: Corners {rect, index} or Subdivisions {ranges, subdivision_index}
    log,        \* the calls made on the producer that yielded, in order
    last,       \* how the last call on the producer ended
    checked     \* whether the build checks integer overflow (debug) or wraps (release)

vars == <<rect, other, op, arg, out, iter, log, last, checked>>

(***************************************************************************)
(* Bounds of the model.                                                    *)
(***************************************************************************)
\* The stored range endpoints of a Rect under a chain of transformations lie
\* in -MaxCoord..MaxCoord.
MaxCoord == 1
\* The stored range endpoints of the receiver of a single one-rect call lie
\* in -MaxUnary..MaxUnary.
MaxUnary == 2
\* The stored range endpoints of the receiver of a single two-rect call lie
\* in 0..MaxPair.
MaxPair == 2
\* The stored range endpoints of `other` lie in 0..MaxOther.
MaxOther == 1
\* Padding, shifting and point arguments lie in -MaxAmount..MaxAmount.
MaxAmount == 1
\* The stored range endpoints of the Rect a producer is made from lie in
\* 0..MaxIter.
MaxIter == 1

Coords == (0 - MaxCoord)..MaxCoord

Amounts == (0 - MaxAmount)..MaxAmount

\* The least, the middle and the greatest amount.
EndAmounts == {0 - MaxAmount, 0, MaxAmount}

(***************************************************************************)
(* Scalars.                                                                *)
(***************************************************************************)
Abs(n) == IF n < 0 THEN 0 - n ELSE n

\* n / two::<S>()
Half(n) == IF n >= 0 THEN n \div 2 ELSE 0 - ((0 - n) \div 2)

partial_max(a, b) == IF a >= b THEN a ELSE b

partial_min(a, b) == IF a <= b THEN a ELSE b

\* Option<T>
None == [some |-> FALSE]

Some(v) == [some |-> TRUE, val |-> v]

(***************************************************************************)
(* geom::Range, from the contract of the specification.                    *)
(***************************************************************************)
Range_new(start, end) == [start |-> start, end |-> end]

Range_from_pos_and_len(pos, len) == Range_new(pos - Half(len), pos + Half(len))

Range_invert(r) == Range_new(r.end, r.start)

Range_absolute(r) == IF r.start > r.end THEN Range_invert(r) ELSE r

Range_middle(r) == Half(r.end + r.start)

Range_len(r) == Abs(r.end - r.start)

Range_shift(r, amount) == Range_new(r.start + amount, r.end + amount)

Range_contains(r, v) == Range_absolute(r).start <= v /\ v <= Range_absolute(r).end

Range_overlap(a, b) ==
    LET start == partial_max(Range_absolute(a).start, Range_absolute(b).start)
        end   == partial_min(Range_absolute(a).end, Range_absolute(b).end)
    IN  IF end - start >= 0 THEN Some(Range_new(start, end)) ELSE None

Range_stretch_to_value(r, v) ==
    IF r.start <= r.end
    THEN IF v < r.start THEN Range_new(v, r.end)
         ELSE IF v > r.end THEN Range_new(r.start, v) ELSE r
    ELSE IF v < r.end THEN Range_new(r.start, v)
         ELSE IF v > r.start THEN Range_new(v, r.end) ELSE r

Range_pad_start(r, pad) ==
    Range_new(r.start + (IF r.start <= r.end THEN pad ELSE 0 - pad), r.end)

Range_pad_end(r, pad) ==
    Range_new(r.start, r.end + (IF r.start <= r.end THEN 0 - pad ELSE pad))

Range_pad(r, pad) == Range_pad_end(Range_pad_start(r, pad), pad)

Range_pad_ends(r, start, end) == Range_pad_end(Range_pad_start(r, start), end)

\* self's end edge placed on other's start edge
Range_align_before(r, o) ==
    Range_shift(r, Range_absolute(o).start - Range_absolute(r).end)

\* self's start edge placed on other's end edge
Range_align_after(r, o) ==
    Range_shift(r, Range_absolute(o).end - Range_absolute(r).start)

Range_align_start_of(r, o) ==
    Range_shift(r, Range_absolute(o).start - Range_absolute(r).start)

Range_align_end_of(r, o) ==
    Range_shift(r, Range_absolute(o).end - Range_absolute(r).end)

Range_align_middle_of(r, o) == Range_shift(r, Range_middle(o) - Range_middle(r))

Aligns == {"Start", "Middle", "End"}

Range_align_to(r, align, o) ==
    CASE align = "Start"  -> Range_align_start_of(r, o)
      [] align = "Middle" -> Range_align_middle_of(r, o)
      [] align = "End"    -> Range_align_end_of(r, o)

Edges == {"Start", "End"}

\* The stored end nearer to v; `tie` is the Edge given where both are as near,
\* which the contract leaves open.
Range_closest_edge(r, v, tie) ==
    IF Abs(v - r.start) < Abs(v - r.end) THEN "Start"
    ELSE IF Abs(v - r.end) < Abs(v - r.start) THEN "End" ELSE tie

(***************************************************************************)
(* geom::Rect.                                                             *)
(***************************************************************************)
Rect(x, y) == [x |-> x, y |-> y]

Point2(x, y) == [x |-> x, y |-> y]

NUM_SUBDIVISIONS == 4

NUM_CORNERS == 4

from_xy_wh(p, wh) ==
    Rect(Range_from_pos_and_len(p.x, wh.x), Range_from_pos_and_len(p.y, wh.y))

from_corners(a, b) ==
    LET lr == IF a.x < b.x THEN <<a.x, b.x>> ELSE <<b.x, a.x>>
        bt == IF a.y < b.y THEN <<a.y, b.y>> ELSE <<b.y, a.y>>
    IN  Rect(Range_new(lr[1], lr[2]), Range_new(bt[1], bt[2]))

absolute(r) == Rect(Range_absolute(r.x), Range_absolute(r.y))

x_y(r) == <<Range_middle(r.x), Range_middle(r.y)>>

bottom(r) == Range_absolute(r.y).start

top(r) == Range_absolute(r.y).end

\* left() reading the stored start, without absolute()
left_NoAbsolute(r) == r.x.start

left(r) == Range_absolute(r.x).start

right(r) == Range_absolute(r.x).end

top_left(r) == Point2(left(r), top(r))

bottom_left(r) == Point2(left(r), bottom(r))

top_right(r) == Point2(right(r), top(r))

bottom_right(r) == Point2(right(r), bottom(r))

w(r) == Range_len(r.x)

h(r) == Range_len(r.y)

Area(r) == w(r) * h(r)

\* overlap() deciding on the x axis alone
overlap_XOnly(a, b) ==
    LET ox == Range_overlap(a.x, b.x)
    IN  IF ox.some THEN Some(Rect(ox.val, Range_absolute(a.y))) ELSE None

overlap(a, b) ==
    LET ox == Range_overlap(a.x, b.x)
        oy == Range_overlap(a.y, b.y)
    IN  IF ox.some /\ oy.some THEN Some(Rect(ox.val, oy.val)) ELSE None

contains(r, p) == Range_contains(r.x, p.x) /\ Range_contains(r.y, p.y)

shift_x(r, dx) == Rect(Range_shift(r.x, dx), r.y)

shift_y(r, dy) == Rect(r.x, Range_shift(r.y, dy))

shift(r, v) == shift_y(shift_x(r, v.x), v.y)

stretch_to_point(r, p) ==
    Rect(Range_stretch_to_value(r.x, p.x), Range_stretch_to_value(r.y, p.y))

left_of(r, o) == Rect(Range_align_before(r.x, o.x), r.y)

right_of(r, o) == Rect(Range_align_after(r.x, o.x), r.y)

below(r, o) == Rect(r.x, Range_align_before(r.y, o.x))

above(r, o) == Rect(r.x, Range_align_after(r.y, o.x))

align_x_of(r, align, o) == Rect(Range_align_to(r.x, align, o.x), r.y)

align_y_of(r, align, o) == Rect(r.x, Range_align_to(r.y, align, o.y))

align_left_of(r, o) == Rect(Range_align_start_of(r.x, o.x), r.y)

align_middle_x_of(r, o) == Rect(Range_align_middle_of(r.x, o.x), r.y)

align_right_of(r, o) == Rect(Range_align_end_of(r.x, o.x), r.y)

align_bottom_of(r, o) == Rect(r.x, Range_align_start_of(r.y, o.y))

align_middle_y_of(r, o) == Rect(r.x, Range_align_middle_of(r.y, o.y))

align_top_of(r, o) == Rect(r.x, Range_align_end_of(r.y, o.y))

\* enum Corner
Corner == {"TopLeft", "TopRight", "BottomLeft", "BottomRight"}

closest_corner(r, p, tie) ==
    LET x_edge == Range_closest_edge(r.x, p.x, tie)
        y_edge == Range_closest_edge(r.y, p.y, tie)
    IN  CASE x_edge = "Start" /\ y_edge = "Start" -> "BottomLeft"
          [] x_edge = "Start" /\ y_edge = "End"   -> "TopLeft"
          [] x_edge = "End"   /\ y_edge = "Start" -> "BottomRight"
          [] x_edge = "End"   /\ y_edge = "End"   -> "TopRight"

corner_at_index(r, index) ==
    CASE index = 0 -> Some(bottom_left(r))
      [] index = 1 -> Some(bottom_right(r))
      [] index = 2 -> Some(top_left(r))
      [] index = 3 -> Some(top_right(r))
      [] OTHER     -> None

\* subdivision_ranges() with the first half of the x range taken twice
subdivision_ranges_SameHalf(r) ==
    [x_a |-> Range_new(r.x.start, x_y(r)[1]),
     x_b |-> Range_new(r.x.start, x_y(r)[1]),
     y_a |-> Range_new(r.y.start, x_y(r)[2]),
     y_b |-> Range_new(x_y(r)[2], r.y.end)]

subdivision_ranges(r) ==
    [x_a |-> Range_new(r.x.start, x_y(r)[1]),
     x_b |-> Range_new(x_y(r)[1], r.x.end),
     y_a |-> Range_new(r.y.start, x_y(r)[2]),
     y_b |-> Range_new(x_y(r)[2], r.y.end)]

\* subdivision_from_index!
subdivision_from_index(ranges, index) ==
    CASE index = 0 -> Rect(ranges.x_a, ranges.y_a)
      [] index = 1 -> Rect(ranges.x_b, ranges.y_a)
      [] index = 2 -> Rect(ranges.x_a, ranges.y_b)
      [] index = 3 -> Rect(ranges.x_b, ranges.y_b)

rects(ranges) ==
    <<subdivision_from_index(ranges, 0), subdivision_from_index(ranges, 1),
      subdivision_from_index(ranges, 2), subdivision_from_index(ranges, 3)>>

subdivisions(r) == rects(subdivision_ranges(r))

subdivision_at_index(ranges, index) ==
    IF index \in 0..3 THEN Some(subdivision_from_index(ranges, index)) ELSE None

pad_left(r, p) == Rect(Range_pad_start(r.x, p), r.y)

pad_right(r, p) == Rect(Range_pad_end(r.x, p), r.y)

pad_bottom(r, p) == Rect(r.x, Range_pad_start(r.y, p))

pad_top(r, p) == Rect(r.x, Range_pad_end(r.y, p))

\* pad() padding the x range into both axes
pad_YFromX(r, p) == Rect(Range_pad(r.x, p), Range_pad(r.x, p))

pad(r, p) == Rect(Range_pad(r.x, p), Range_pad(r.y, p))

\* Padding {x, y}: the amounts for the start and end of each axis
padding(r, pd) ==
    Rect(Range_pad_ends(r.x, pd.x.start, pd.x.end),
         Range_pad_ends(r.y, pd.y.start, pd.y.end))

relative_to_x(r, px) == Rect(Range_shift(r.x, 0 - px), r.y)

relative_to_y(r, py) == Rect(r.x, Range_shift(r.y, 0 - py))

relative_to(r, p) == relative_to_y(relative_to_x(r, p.x), p.y)

(***************************************************************************)
(* u8 arithmetic.  An operation whose mathematical result leaves 0..255    *)
(* panics in a build that checks overflow and wraps modulo 2^8 otherwise.  *)
(***************************************************************************)
U8Overflows(n) == n < 0 \/ n > 2^8 - 1

U8Wrap(n) == n % (2^8)

(***************************************************************************)
(* Corners and Subdivisions.                                               *)
(***************************************************************************)
corners_iter(r) == [kind |-> "Corners", rect |-> r, index |-> 0]

rects_iter(ranges) ==
    [kind |-> "Subdivisions", ranges |-> ranges, subdivision_index |-> 0]

subdivisions_iter(r) == rects_iter(subdivision_ranges(r))

\* What a call on a producer does: how it ended ("some", "none" or "panic"),
\* the item and the index it was read at when it yielded, the producer
\* after the call, and whether a u8 computation left 0..255.
Yielded(it, index, item, overflow) ==
    [end |-> "some", iter |-> it, index |-> index, item |-> item, overflow |-> overflow]

NotYielded(it, overflow) == [end |-> "none", iter |-> it, overflow |-> overflow]

Panicked(it) == [end |-> "panic", iter |-> it, overflow |-> TRUE]

Subdivisions_next(it, chk) ==
    LET sd == subdivision_at_index(it.ranges, it.subdivision_index)
        n  == it.subdivision_index + 1
    IN  IF sd.some
        THEN IF chk /\ U8Overflows(n)
             THEN Panicked(it)
             ELSE Yielded([it EXCEPT !.subdivision_index = U8Wrap(n)],
                          it.subdivision_index, sd.val, U8Overflows(n))
        ELSE NotYielded(it, FALSE)

Subdivisions_next_back(it, chk) ==
    LET next_index == it.subdivision_index + 1
        from_end   == NUM_SUBDIVISIONS - U8Wrap(next_index)
        overflow   == U8Overflows(next_index) \/ U8Overflows(from_end)
        sd         == subdivision_at_index(it.ranges, U8Wrap(from_end))
    IN  IF chk /\ overflow
        THEN Panicked(it)
        ELSE IF sd.some
             THEN Yielded([it EXCEPT !.subdivision_index = U8Wrap(next_index)],
                          U8Wrap(from_end), sd.val, overflow)
             ELSE NotYielded(it, overflow)

\* len() counting from the last index, one short
Subdivisions_len_OffByOne(it) == NUM_SUBDIVISIONS - 1 - it.subdivision_index

Subdivisions_len(it) == NUM_SUBDIVISIONS - it.subdivision_index

Subdivisions_size_hint(it) == <<Subdivisions_len(it), Some(Subdivisions_len(it))>>

Corners_next(it, chk) ==
    LET corner == corner_at_index(it.rect, it.index)
        n      == it.index + 1
    IN  IF corner.some
        THEN IF chk /\ U8Overflows(n)
             THEN Panicked(it)
             ELSE Yielded([it EXCEPT !.index = U8Wrap(n)], it.index, corner.val,
                          U8Overflows(n))
        ELSE NotYielded(it, FALSE)

\* next_back() reading at the index itself, not from the end
Corners_next_back_FromIndex(it, chk) ==
    LET next_index == it.index + 1
        corner     == corner_at_index(it.rect, it.index)
    IN  IF corner.some
        THEN Yielded([it EXCEPT !.index = U8Wrap(next_index)], it.index, corner.val, FALSE)
        ELSE NotYielded(it, FALSE)

Corners_next_back(it, chk) ==
    LET next_index == it.index + 1
        from_end   == NUM_CORNERS - U8Wrap(next_index)
        overflow   == U8Overflows(next_index) \/ U8Overflows(from_end)
        corner     == corner_at_index(it.rect, U8Wrap(from_end))
    IN  IF chk /\ overflow
        THEN Panicked(it)
        ELSE IF corner.some
             THEN Yielded([it EXCEPT !.index = U8Wrap(next_index)],
                          U8Wrap(from_end), corner.val, overflow)
             ELSE NotYielded(it, overflow)

Corners_len(it) == NUM_CORNERS - it.index

Corners_size_hint(it) == <<Corners_len(it), Some(Corners_len(it))>>

producer_next(it, chk) ==
    IF it.kind = "Corners" THEN Corners_next(it, chk) ELSE Subdivisions_next(it, chk)

producer_next_back(it, chk) ==
    IF it.kind = "Corners" THEN Corners_next_back(it, chk)
    ELSE Subdivisions_next_back(it, chk)

producer_len(it) ==
    IF it.kind = "Corners" THEN Corners_len(it) ELSE Subdivisions_len(it)

producer_size_hint(it) ==
    IF it.kind = "Corners" THEN Corners_size_hint(it) ELSE Subdivisions_size_hint(it)

(***************************************************************************)
(* The sets the inputs are drawn from.                                     *)
(***************************************************************************)
RangesOver(S) == [start : S, end : S]

RectsOver(S) == [x : RangesOver(S), y : RangesOver(S)]

PointsOver(S) == [x : S, y : S]

IterRects == RectsOver(0..MaxIter)

\* The value of `other` where no operation takes one.
NoRect == Rect(Range_new(0, 0), Range_new(0, 0))

NoCall == [call |-> "new", end |-> "new", overflow |-> FALSE]

(***************************************************************************)
(* SpecIter: a producer is made from a Rect by corners_iter or             *)
(* subdivisions_iter and then next and next_back are called on it in any   *)
(* order.  A panic ends the run.                                           *)
(***************************************************************************)
InitIter ==
    /\ rect \in IterRects
    /\ other = NoRect
    /\ op = "new"
    /\ arg = 0
    /\ out = None
    /\ iter \in {corners_iter(rect), subdivisions_iter(rect)}
    /\ log = <<>>
    /\ last = NoCall
    /\ checked \in BOOLEAN

Call(name, s) ==
    /\ iter' = s.iter
    /\ last' = [call |-> name, end |-> s.end, overflow |-> s.overflow]
    /\ log' = IF s.end = "some"
              THEN Append(log, [call |-> name, index |-> s.index, item |-> s.item])
              ELSE log
    /\ UNCHANGED <<rect, other, op, arg, out, checked>>

CornersNext ==
    /\ iter.kind = "Corners"
    /\ last.end # "panic"
    /\ Call("next", Corners_next(iter, checked))

CornersNextBack ==
    /\ iter.kind = "Corners"
    /\ last.end # "panic"
    /\ Call("next_back", Corners_next_back(iter, checked))

SubdivisionsNext ==
    /\ iter.kind = "Subdivisions"
    /\ last.end # "panic"
    /\ Call("next", Subdivisions_next(iter, checked))

SubdivisionsNextBack ==
    /\ iter.kind = "Subdivisions"
    /\ last.end # "panic"
    /\ Call("next_back", Subdivisions_next_back(iter, checked))

NextIter == CornersNext \/ CornersNextBack \/ SubdivisionsNext \/ SubdivisionsNextBack

SpecIter == InitIter /\ [][NextIter]_vars

(***************************************************************************)
(* Helpers of the properties of the producers.                             *)
(***************************************************************************)
\* The four elements of a producer by position.
Elements(it) ==
    IF it.kind = "Corners"
    THEN <<bottom_left(it.rect), bottom_right(it.rect),
           top_left(it.rect), top_right(it.rect)>>
    ELSE rects(it.ranges)

\* The producer as it was when created.
Fresh(it) ==
    IF it.kind = "Corners" THEN [it EXCEPT !.index = 0]
    ELSE [it EXCEPT !.subdivision_index = 0]

RECURSIVE CollectFront(_, _)
\* What next yields, call after call, until a call yields nothing.
CollectFront(it, chk) ==
    LET s == producer_next(it, chk)
    IN  IF s.end = "some"
        THEN <<[index |-> s.index, item |-> s.item]>> \o CollectFront(s.iter, chk)
        ELSE <<>>

RECURSIVE CollectBack(_, _)
\* What next_back yields, call after call, until a call yields nothing.
CollectBack(it, chk) ==
    LET s == producer_next_back(it, chk)
    IN  IF s.end = "some"
        THEN <<[index |-> s.index, item |-> s.item]>> \o CollectBack(s.iter, chk)
        ELSE <<>>

RECURSIVE RemainingCounts(_, _)
\* How many more elements the producer can yield, over every order of calls.
RemainingCounts(it, chk) ==
    LET ys == {s \in {producer_next(it, chk), producer_next_back(it, chk)} :
                  s.end = "some"}
    IN  IF ys = {} THEN {0}
        ELSE UNION {{1 + c : c \in RemainingCounts(s.iter, chk)} : s \in ys}

OnlyCalls(name) == \A i \in 1..Len(log) : log[i].call = name

\* C1: consumed only from the front a producer yields the elements at index
\* 0,1,2,3 in that order (corners: bottom-left, bottom-right, top-left,
\* top-right), consumed only from the back the elements at index 3,2,1,0, and
\* the whole backward sequence is the reverse of the whole forward sequence.
C1_FrontAndBackOrder ==
    LET el  == Elements(iter)
        fwd == CollectFront(Fresh(iter), checked)
        bwd == CollectBack(Fresh(iter), checked)
    IN  /\ OnlyCalls("next") =>
              \A i \in 1..Len(log) : log[i].index = i - 1 /\ log[i].item = el[i]
        /\ OnlyCalls("next_back") =>
              \A i \in 1..Len(log) : log[i].index = 4 - i /\ log[i].item = el[5 - i]
        /\ fwd = [i \in 1..4 |-> [index |-> i - 1, item |-> el[i]]]
        /\ bwd = [i \in 1..4 |-> fwd[5 - i]]

\* Corners consumed from the back to the end, over a Rect with four distinct corners.
C1_Witness ==
    /\ iter.kind = "Corners"
    /\ Len(log) = 4
    /\ OnlyCalls("next_back")
    /\ Cardinality({log[i].item : i \in 1..4}) = 4

\* C2: after any calls, len() and both bounds of size_hint are 4 minus the
\* number of elements yielded so far, that is the number of elements further
\* calls still yield in whatever order they are made, and a producer that has
\* stopped yielding has yielded exactly 4.
C2_ExactLength ==
    LET n == producer_len(iter)
    IN  /\ n = 4 - Len(log)
        /\ producer_size_hint(iter) = <<n, Some(n)>>
        /\ RemainingCounts(iter, checked) = {n}
        /\ (producer_next(iter, checked).end = "some") = (n > 0)
        /\ (producer_next_back(iter, checked).end = "some") = (n > 0)
        /\ last.end \in {"none", "panic"} => Len(log) = 4

\* Subdivisions consumed from both ends until a call returned none.
C2_Witness ==
    /\ iter.kind = "Subdivisions"
    /\ last.end = "none"
    /\ Len(log) = 4
    /\ \E i, j \in 1..4 : log[i].call = "next" /\ log[j].call = "next_back"

\* C3: every call, also one made on an exhausted producer, ends by yielding an
\* element or by returning none, no u8 computation leaves 0..255, and an index
\* out of range gives none.
C3_NoErrorStates ==
    /\ last.end \in {"new", "some", "none"}
    /\ ~last.overflow
    /\ \A i \in 4..(2^8 - 1) :
          /\ corner_at_index(rect, i) = None
          /\ subdivision_at_index(subdivision_ranges(rect), i) = None

(***************************************************************************)
(* Spec: a Rect is constructed and then transformed, each operation being  *)
(* called on the Rect the one before returned.  Results whose stored       *)
(* endpoints leave -MaxCoord..MaxCoord are not followed.                   *)
(***************************************************************************)
Rects == RectsOver(Coords)

\* The Rects passed as `other` along a chain: each range is a point or spans
\* 0..MaxOther, in either direction.
ChainOthers == RectsOver({0, MaxOther})

Points == PointsOver(EndAmounts)

Paddings == [x : RangesOver(EndAmounts), y : RangesOver(EndAmounts)]

NoIter == [kind |-> "none"]

Constructed ==
    \/ /\ op = "from_xy_wh"
       /\ \E p \in Points, wh \in Points : rect = from_xy_wh(p, wh)
    \/ /\ op = "from_corners"
       /\ \E a \in PointsOver(Coords), b \in PointsOver(Coords) : rect = from_corners(a, b)
    \/ /\ op = "literal"
       /\ rect \in Rects

Init ==
    /\ Constructed
    /\ other = NoRect
    /\ arg = 0
    /\ out = None
    /\ iter = NoIter
    /\ log = <<>>
    /\ last = NoCall
    /\ checked = FALSE

\* The operation returns r, which the next operation is called on.
Returns(r) ==
    /\ r \in Rects
    /\ rect' = r
    /\ UNCHANGED <<other, arg, out, iter, log, last, checked>>

Absolute ==
    /\ op' = "absolute"
    /\ Returns(absolute(rect))

Shift ==
    \E v \in Points :
        /\ op' = "shift"
        /\ Returns(shift(rect, v))

RelativeTo ==
    \E p \in Points :
        /\ op' = "relative_to"
        /\ Returns(relative_to(rect, p))

StretchToPoint ==
    \E p \in PointsOver(Coords) :
        /\ op' = "stretch_to_point"
        /\ Returns(stretch_to_point(rect, p))

LeftOf ==
    \E o \in ChainOthers :
        /\ op' = "left_of"
        /\ Returns(left_of(rect, o))

RightOf ==
    \E o \in ChainOthers :
        /\ op' = "right_of"
        /\ Returns(right_of(rect, o))

Below ==
    \E o \in ChainOthers :
        /\ op' = "below"
        /\ Returns(below(rect, o))

Above ==
    \E o \in ChainOthers :
        /\ op' = "above"
        /\ Returns(above(rect, o))

AlignXOf ==
    \E o \in ChainOthers, a \in Aligns :
        /\ op' = "align_x_of"
        /\ Returns(align_x_of(rect, a, o))

AlignYOf ==
    \E o \in ChainOthers, a \in Aligns :
        /\ op' = "align_y_of"
        /\ Returns(align_y_of(rect, a, o))

AlignLeftOf ==
    \E o \in ChainOthers :
        /\ op' = "align_left_of"
        /\ Returns(align_left_of(rect, o))

AlignMiddleXOf ==
    \E o \in ChainOthers :
        /\ op' = "align_middle_x_of"
        /\ Returns(align_middle_x_of(rect, o))

AlignRightOf ==
    \E o \in ChainOthers :
        /\ op' = "align_right_of"
        /\ Returns(align_right_of(rect, o))

AlignBottomOf ==
    \E o \in ChainOthers :
        /\ op' = "align_bottom_of"
        /\ Returns(align_bottom_of(rect, o))

AlignMiddleYOf ==
    \E o \in ChainOthers :
        /\ op' = "align_middle_y_of"
        /\ Returns(align_middle_y_of(rect, o))

AlignTopOf ==
    \E o \in ChainOthers :
        /\ op' = "align_top_of"
        /\ Returns(align_top_of(rect, o))

PadLeft ==
    \E p \in Amounts :
        /\ op' = "pad_left"
        /\ Returns(pad_left(rect, p))

PadRight ==
    \E p \in Amounts :
        /\ op' = "pad_right"
        /\ Returns(pad_right(rect, p))

PadBottom ==
    \E p \in Amounts :
        /\ op' = "pad_bottom"
        /\ Returns(pad_bottom(rect, p))

PadTop ==
    \E p \in Amounts :
        /\ op' = "pad_top"
        /\ Returns(pad_top(rect, p))

Pad ==
    \E p \in Amounts :
        /\ op' = "pad"
        /\ Returns(pad(rect, p))

PaddingOp ==
    \E pd \in Paddings :
        /\ op' = "padding"
        /\ Returns(padding(rect, pd))

Subdivide ==
    \E i \in 1..4 :
        /\ op' = "subdivisions"
        /\ Returns(subdivisions(rect)[i])

Next ==
    \/ Absolute \/ Shift \/ RelativeTo \/ StretchToPoint
    \/ LeftOf \/ RightOf \/ Below \/ Above \/ AlignXOf \/ AlignYOf
    \/ AlignLeftOf \/ AlignMiddleXOf \/ AlignRightOf
    \/ AlignBottomOf \/ AlignMiddleYOf \/ AlignTopOf
    \/ PadLeft \/ PadRight \/ PadBottom \/ PadTop \/ Pad \/ PaddingOp
    \/ Subdivide

Spec == Init /\ [][Next]_vars

\* C8: whatever constructor made a Rect and whatever transformations followed,
\* left() <= right() and bottom() <= top(), and absolute() changes none of
\* left(), right(), bottom() and top().
C8_DerivedEdgesOrdered ==
    /\ left(rect) <= right(rect)
    /\ bottom(rect) <= top(rect)
    /\ left(absolute(rect)) = left(rect)
    /\ right(absolute(rect)) = right(rect)
    /\ bottom(absolute(rect)) = bottom(rect)
    /\ top(absolute(rect)) = top(rect)

\* A padding that turned the stored ranges of both axes around.
C8_Witness ==
    /\ op = "pad"
    /\ rect.x.start > rect.x.end
    /\ rect.y.start > rect.y.end

(***************************************************************************)
(* SpecUnary: single calls on one Rect, which keeps its value: rect is the *)
(* receiver, arg the amount passed and out what the call returned.         *)
(***************************************************************************)
UnaryRects == RectsOver((0 - MaxUnary)..MaxUnary)

InitUnary ==
    /\ rect \in UnaryRects
    /\ other = NoRect
    /\ op = "new"
    /\ arg = 0
    /\ out = None
    /\ iter = NoIter
    /\ log = <<>>
    /\ last = NoCall
    /\ checked = FALSE

CallSubdivisions ==
    /\ op' = "subdivisions"
    /\ arg' = 0
    /\ out' = subdivisions(rect)
    /\ UNCHANGED <<rect, other, iter, log, last, checked>>

CallPad ==
    \E p \in Amounts :
        /\ op' = "pad"
        /\ arg' = p
        /\ out' = pad(rect, p)
        /\ UNCHANGED <<rect, other, iter, log, last, checked>>

\* rect.pad(p).pad(-p): the second call, on what the first returned
CallPadBack ==
    /\ op = "pad"
    /\ op' = "pad_back"
    /\ out' = pad(out, 0 - arg)
    /\ UNCHANGED <<rect, other, arg, iter, log, last, checked>>

\* The points passed to closest_corner: each coordinate is 0 or an end of
\* -MaxUnary..MaxUnary.
FarPoints == PointsOver({0 - MaxUnary, 0, MaxUnary})

\* rect.closest_corner(p): out holds the point passed, the Edge that
\* Range::closest_edge gives on a tie, and the Corner returned
CallClosestCorner ==
    \E p \in FarPoints, tie \in Edges :
        /\ op' = "closest_corner"
        /\ arg' = 0
        /\ out' = [p |-> p, tie |-> tie, corner |-> closest_corner(rect, p, tie)]
        /\ UNCHANGED <<rect, other, iter, log, last, checked>>

NextUnary == CallSubdivisions \/ CallPad \/ CallPadBack \/ CallClosestCorner

SpecUnary == InitUnary /\ [][NextUnary]_vars

\* Whether halving is exact on both axes of r.
ExactHalves(r) ==
    /\ (r.x.start + r.x.end) % 2 = 0
    /\ (r.y.start + r.y.end) % 2 = 0

Inside(a, r) ==
    /\ left(r) <= left(a)
    /\ right(a) <= right(r)
    /\ bottom(r) <= bottom(a)
    /\ top(a) <= top(r)

ZeroAreaOverlap(a, b) == ~overlap(a, b).some \/ Area(overlap(a, b).val) = 0

\* C4: subdivisions() returns bottom-left, bottom-right, top-left, top-right in
\* that order, whatever the stored orientation of the ranges.
C4_SubdivisionsByPosition ==
    op = "subdivisions" =>
        /\ left(out[1]) = left(rect) /\ bottom(out[1]) = bottom(rect)
        /\ right(out[2]) = right(rect) /\ bottom(out[2]) = bottom(rect)
        /\ left(out[3]) = left(rect) /\ top(out[3]) = top(rect)
        /\ right(out[4]) = right(rect) /\ top(out[4]) = top(rect)

\* C5: where halving is exact the four subdivisions tile the Rect: each has
\* half its width and half its height and lies inside it, two distinct ones
\* overlap in no area, their areas add up to its area, and every point of it
\* is in one of them.
C5_SubdivisionsTile ==
    (op = "subdivisions" /\ ExactHalves(rect)) =>
        /\ \A i \in 1..4 :
              /\ 2 * w(out[i]) = w(rect)
              /\ 2 * h(out[i]) = h(rect)
              /\ Inside(out[i], rect)
        /\ \A i, j \in 1..4 : i # j => ZeroAreaOverlap(out[i], out[j])
        /\ Area(out[1]) + Area(out[2]) + Area(out[3]) + Area(out[4]) = Area(rect)
        /\ \A p \in PointsOver((0 - MaxUnary)..MaxUnary) :
              contains(rect, p) => \E i \in 1..4 : contains(out[i], p)

\* The subdivisions of a Rect of positive area whose x range is stored end first.
C5_Witness ==
    /\ op = "subdivisions"
    /\ ExactHalves(rect)
    /\ Area(rect) > 0
    /\ rect.x.start > rect.x.end

Min(a, b) == IF a <= b THEN a ELSE b

\* C10: rect.pad(p).pad(-p) = rect for a positive p smaller than half of the
\* smallest dimension of rect.
C10_PadInvertible ==
    (op = "pad_back" /\ arg > 0 /\ 2 * arg < Min(w(rect), h(rect))) => out = rect

\* A Rect padded and padded back whose two ranges are stored in opposite
\* directions.
C10_Witness ==
    /\ op = "pad_back"
    /\ arg > 0
    /\ 2 * arg < Min(w(rect), h(rect))
    /\ rect.x.start > rect.x.end
    /\ rect.y.start < rect.y.end

(***************************************************************************)
(* SpecPair: single calls on two Rects, which keep their values: rect is   *)
(* the receiver, other the Rect passed, arg the Align passed (0 when none) *)
(* and out what the call returned.                                         *)
(***************************************************************************)
PairRects == RectsOver(0..MaxPair)

OtherRects == RectsOver(0..MaxOther)

InitPair ==
    /\ rect \in PairRects
    /\ other \in OtherRects
    /\ op = "new"
    /\ arg = 0
    /\ out = None
    /\ iter = NoIter
    /\ log = <<>>
    /\ last = NoCall
    /\ checked = FALSE

CallLeftOf ==
    /\ op' = "left_of"
    /\ arg' = 0
    /\ out' = left_of(rect, other)
    /\ UNCHANGED <<rect, other, iter, log, last, checked>>

CallRightOf ==
    /\ op' = "right_of"
    /\ arg' = 0
    /\ out' = right_of(rect, other)
    /\ UNCHANGED <<rect, other, iter, log, last, checked>>

CallBelow ==
    /\ op' = "below"
    /\ arg' = 0
    /\ out' = below(rect, other)
    /\ UNCHANGED <<rect, other, iter, log, last, checked>>

CallAbove ==
    /\ op' = "above"
    /\ arg' = 0
    /\ out' = above(rect, other)
    /\ UNCHANGED <<rect, other, iter, log, last, checked>>

CallAlignLeftOf ==
    /\ op' = "align_left_of"
    /\ arg' = 0
    /\ out' = align_left_of(rect, other)
    /\ UNCHANGED <<rect, other, iter, log, last, checked>>

CallAlignMiddleXOf ==
    /\ op' = "align_middle_x_of"
    /\ arg' = 0
    /\ out' = align_middle_x_of(rect, other)
    /\ UNCHANGED <<rect, other, iter, log, last, checked>>

CallAlignRightOf ==
    /\ op' = "align_right_of"
    /\ arg' = 0
    /\ out' = align_right_of(rect, other)
    /\ UNCHANGED <<rect, other, iter, log, last, checked>>

CallAlignBottomOf ==
    /\ op' = "align_bottom_of"
    /\ arg' = 0
    /\ out' = align_bottom_of(rect, other)
    /\ UNCHANGED <<rect, other, iter, log, last, checked>>

CallAlignMiddleYOf ==
    /\ op' = "align_middle_y_of"
    /\ arg' = 0
    /\ out' = align_middle_y_of(rect, other)
    /\ UNCHANGED <<rect, other, iter, log, last, checked>>

CallAlignTopOf ==
    /\ op' = "align_top_of"
    /\ arg' = 0
    /\ out' = align_top_of(rect, other)
    /\ UNCHANGED <<rect, other, iter, log, last, checked>>

CallAlignXOf ==
    \E a \in Aligns :
        /\ op' = "align_x_of"
        /\ arg' = a
        /\ out' = align_x_of(rect, a, other)
        /\ UNCHANGED <<rect, other, iter, log, last, checked>>

CallAlignYOf ==
    \E a \in Aligns :
        /\ op' = "align_y_of"
        /\ arg' = a
        /\ out' = align_y_of(rect, a, other)
        /\ UNCHANGED <<rect, other, iter, log, last, checked>>

CallOverlap ==
    /\ op' = "overlap"
    /\ arg' = 0
    /\ out' = overlap(rect, other)
    /\ UNCHANGED <<rect, other, iter, log, last, checked>>

\* rect.overlap(rect)
CallOverlapSelf ==
    /\ op' = "overlap_self"
    /\ arg' = 0
    /\ out' = overlap(rect, rect)
    /\ UNCHANGED <<rect, other, iter, log, last, checked>>

NextPair ==
    \/ CallLeftOf \/ CallRightOf \/ CallBelow \/ CallAbove
    \/ CallAlignXOf \/ CallAlignYOf
    \/ CallAlignLeftOf \/ CallAlignMiddleXOf \/ CallAlignRightOf
    \/ CallAlignBottomOf \/ CallAlignMiddleYOf \/ CallAlignTopOf
    \/ CallOverlap \/ CallOverlapSelf

SpecPair == InitPair /\ [][NextPair]_vars

\* The alignment methods of one axis.
XAligned ==
    {"left_of", "right_of", "align_x_of", "align_left_of", "align_middle_x_of",
     "align_right_of"}

YAligned ==
    {"below", "above", "align_y_of", "align_bottom_of", "align_middle_y_of",
     "align_top_of"}

\* What the alignment method `name` returns for receiver r, Align a and other o.
Aligned(name, r, a, o) ==
    CASE name = "left_of"           -> left_of(r, o)
      [] name = "right_of"          -> right_of(r, o)
      [] name = "below"             -> below(r, o)
      [] name = "above"             -> above(r, o)
      [] name = "align_x_of"        -> align_x_of(r, a, o)
      [] name = "align_y_of"        -> align_y_of(r, a, o)
      [] name = "align_left_of"     -> align_left_of(r, o)
      [] name = "align_middle_x_of" -> align_middle_x_of(r, o)
      [] name = "align_right_of"    -> align_right_of(r, o)
      [] name = "align_bottom_of"   -> align_bottom_of(r, o)
      [] name = "align_middle_y_of" -> align_middle_y_of(r, o)
      [] name = "align_top_of"      -> align_top_of(r, o)

\* C6: self.below(other) has its top edge on the bottom edge of other and
\* self.above(other) its bottom edge on the top edge of other, both with the
\* height and the x range of self.
C6_BelowAboveTouchOther ==
    /\ op = "below" =>
          top(out) = bottom(other) /\ h(out) = h(rect) /\ out.x = rect.x
    /\ op = "above" =>
          bottom(out) = top(other) /\ h(out) = h(rect) /\ out.x = rect.x

\* C7: an alignment method of the x axis returns the y range of self and does
\* not depend on the y range of other; one of the y axis returns the x range
\* of self and does not depend on the x range of other.
C7_OneAxisOnly ==
    /\ op \in XAligned =>
          /\ out.y = rect.y
          /\ \A o \in OtherRects : o.x = other.x => Aligned(op, rect, arg, o) = out
    /\ op \in YAligned =>
          /\ out.x = rect.x
          /\ \A o \in OtherRects : o.y = other.y => Aligned(op, rect, arg, o) = out

\* Whether two ranges have a value in common.
Intersect(a, b) ==
    \E v \in 0..(MaxPair + MaxOther) : Range_contains(a, v) /\ Range_contains(b, v)

\* C9: a.overlap(b) is a Rect exactly when the x ranges intersect and the y
\* ranges intersect, touching ends included; it then spans from the greater
\* left to the lesser right edge and from the greater bottom to the lesser top
\* edge; and rect.overlap(rect) is Some(rect.absolute()).
C9_OverlapIsIntersection ==
    /\ op = "overlap" =>
          /\ out.some = (Intersect(rect.x, other.x) /\ Intersect(rect.y, other.y))
          /\ out.some =>
                out.val = Rect(Range_new(partial_max(left(rect), left(other)),
                                         partial_min(right(rect), right(other))),
                               Range_new(partial_max(bottom(rect), bottom(other)),
                                         partial_min(top(rect), top(other))))
    /\ op = "overlap_self" => out = Some(absolute(rect))

\* Two Rects of positive area that only touch along an edge: their overlap is
\* a Rect of no area.
C9_Witness ==
    /\ op = "overlap"
    /\ out.some
    /\ Area(out.val) = 0
    /\ Area(rect) > 0
    /\ Area(other) > 0
    /\ rect.x.start > rect.x.end

\* The point of a Corner of r.
CornerPoint(r, c) ==
    CASE c = "TopLeft"     -> top_left(r)
      [] c = "TopRight"    -> top_right(r)
      [] c = "BottomLeft"  -> bottom_left(r)
      [] c = "BottomRight" -> bottom_right(r)

\* C11: whatever the stored orientation of the ranges, the Corner that
\* closest_corner(p) returns is a closest one: its point is at least as near
\* to p on the x axis and on the y axis as the point of every other Corner.
C11_ClosestCornerIsClosest ==
    op = "closest_corner" =>
        LET near == CornerPoint(rect, out.corner)
        IN  \A c \in Corner :
                /\ Abs(near.x - out.p.x) <= Abs(CornerPoint(rect, c).x - out.p.x)
                /\ Abs(near.y - out.p.y) <= Abs(CornerPoint(rect, c).y - out.p.y)

\* The indices the first n yielding calls read.
YieldedBefore(n) == {log[i].index : i \in 1..(n - 1)}

\* C12: under every interleaving of next and next_back no index is yielded
\* twice: next yields the lowest index not yet yielded, next_back the highest,
\* and a producer that has yielded four elements has yielded each index once.
C12_NoIndexTwice ==
    /\ \A i, j \in 1..Len(log) : i # j => log[i].index # log[j].index
    /\ \A i \in 1..Len(log) :
          LET rest == (0..3) \ YieldedBefore(i)
          IN  /\ log[i].index \in rest
              /\ log[i].call = "next" => \A k \in rest : log[i].index <= k
              /\ log[i].call = "next_back" => \A k \in rest : log[i].index >= k
    /\ Len(log) = 4 => {log[i].index : i \in 1..4} = 0..3

============================================================================
